---- MODULE Spec2Model ----
(***************************************************************************)
(* Model of the CIPS survey pipeline of app_cips.py:                       *)
(*   procesar_geometria_lrs    (geospatial alignment, lines 108-192)       *)
(*   procesar_archivo_completo (orchestrator, lines 271-386)               *)
(*                                                                         *)
(* A DataFrame is a record [cols, rows]: cols is the set of column names,  *)
(* rows the sequence of rows, each row a function from cols to cells.      *)
(* A cell is NaN (the empty tuple) or <<v>>.                               *)
(*                                                                         *)
(* Units (all integers):                                                   *)
(*   voltages          0.005 mV; input readings carry two decimals, so     *)
(*                     every input voltage is an even number of units      *)
(*   stations          millimetres                                         *)
(*   sensor distance   metres                                              *)
(*   coordinates       [num, den, jit, snap]: the rational num/den, plus   *)
(*                     the jit-th draw of the seeded generator / 1e6 when  *)
(*                     jit > 0; snap marks the back-projected coordinate   *)
(*                     of the centerline point at arc length num           *)
(*   text              a sequence of words                                 *)
(***************************************************************************)
EXTENDS Integers, Sequences, FiniteSets, TLC

\* ------------------------------------------------------------------ cells
NaN == <<>>
Some(v) == <<v>>
IsNaN(c) == c = NaN
Val(c) == c[1]

Abs(x) == IF x < 0 THEN -x ELSE x

RECURSIVE SumSeq(_)
SumSeq(s) == IF s = <<>> THEN 0 ELSE Head(s) + SumSeq(Tail(s))

RECURSIVE Gcd(_, _)
Gcd(a, b) == IF b = 0 THEN Abs(a) ELSE Gcd(b, a % b)

\* num/den (den > 0) rounded to the nearest integer, ties to even
\* (numpy / pandas round)
RoundHalfEven(num, den) ==
    LET q == num \div den
        r == num % den
    IN  IF 2 * r < den THEN q
        ELSE IF 2 * r > den THEN q + 1
        ELSE IF q % 2 = 0 THEN q ELSE q + 1

\* the values of the non-NaN cells of a sequence of cells, in order
RECURSIVE Present(_)
Present(s) ==
    IF s = <<>> THEN <<>>
    ELSE IF IsNaN(Head(s)) THEN Present(Tail(s))
         ELSE <<Val(Head(s))>> \o Present(Tail(s))

\* ------------------------------------------------------------- DataFrames
NRows(df) == Len(df.rows)
Column(df, c) == [i \in 1..NRows(df) |-> df.rows[i][c]]

\* df[c] = s : assign (or add) column c from the sequence of cells s
SetColumn(df, c, s) ==
    [cols |-> df.cols \cup {c},
     rows |-> [i \in 1..NRows(df) |->
                 [k \in df.cols \cup {c} |-> IF k = c THEN s[i] ELSE df.rows[i][k]]]]

DropColumns(df, cs) ==
    [cols |-> df.cols \ cs,
     rows |-> [i \in 1..NRows(df) |-> [k \in df.cols \ cs |-> df.rows[i][k]]]]

\* df.rename(columns = m): m is a function from old names to new names
NewName(m, k) == IF k \in DOMAIN m THEN m[k] ELSE k
OldName(m, cols, k) == CHOOSE o \in cols : NewName(m, o) = k
Rename(df, m) ==
    LET nc == {NewName(m, k) : k \in df.cols}
    IN  [cols |-> nc,
         rows |-> [i \in 1..NRows(df) |->
                     [k \in nc |-> df.rows[i][OldName(m, df.cols, k)]]]]
\* ------------------------------------------------- procesar_geometria_lrs
ErrNoGPS == "Error: No hay coordenadas GPS validas en el archivo."
ErrCarga == "Error cargando archivo geo"
ErrLineas == "Error: El archivo de referencia no tiene lineas validas."
ErrInterno == "Error interno geoespacial"
None == "None"

RenameMap == [k \in {"Dist From Start", "Latitude", "Longitude"} |->
                IF k = "Dist From Start" THEN "PK_equipo"
                ELSE IF k = "Latitude" THEN "Lat" ELSE "Long"]

\* an input coordinate v as a coordinate value
Coord(v) == [num |-> v, den |-> 1, jit |-> 0, snap |-> FALSE]

\* a fraction in lowest terms, as a coordinate value
Frac(num, den) ==
    LET g == Gcd(num, den)
    IN  [num |-> num \div g, den |-> den \div g, jit |-> 0, snap |-> FALSE]

MinFitRows == 2

\* LinearRegression().fit(x, y).predict(x0): least squares y = a x + b over
\* the points (xs[i], ys[i]); a constant x gives slope 0 and the mean of y.
PredictLinear(xs, ys, x0) ==
    LET n == Len(xs)
        Sx == SumSeq(xs)
        Sy == SumSeq(ys)
        Sxx == SumSeq([i \in 1..n |-> xs[i] * xs[i]])
        Sxy == SumSeq([i \in 1..n |-> xs[i] * ys[i]])
        D == n * Sxx - Sx * Sx
    IN  IF D = 0 THEN Frac(Sy, n)
        ELSE Frac(Sy * D + (n * Sxy - Sx * Sy) * (n * x0 - Sx), n * D)

\* lines 121-126 for one coordinate: [df, raised].  The fit raises when a
\* sensor distance it reads is NaN.
ImputeCoord(df, coord) ==
    LET n == NRows(df)
        ok == {i \in 1..n : ~IsNaN(df.rows[i][coord])}
        okSeq == [i \in 1..n |-> IF i \in ok THEN Some(i) ELSE NaN]
        idx == Present(okSeq)
        xs == [j \in 1..Len(idx) |-> Val(df.rows[idx[j]]["PK_equipo"])]
        ys == [j \in 1..Len(idx) |-> Val(df.rows[idx[j]][coord]).num]
    IN  IF ok # 1..n /\ Cardinality(ok) > MinFitRows
        THEN IF \E i \in 1..n : IsNaN(df.rows[i]["PK_equipo"])
             THEN [df |-> df, raised |-> TRUE]
             ELSE [df |-> SetColumn(df, coord,
                            [i \in 1..n |->
                               IF i \in ok THEN df.rows[i][coord]
                               ELSE Some(PredictLinear(xs, ys,
                                            Val(df.rows[i]["PK_equipo"])))]),
                   raised |-> FALSE]
        ELSE [df |-> df, raised |-> FALSE]

\* Transformer EPSG:4326 -> EPSG:3857 of one coordinate column, symbolic
Mercator(c) == Some([proj |-> "EPSG:3857", of |-> c])

MinPairs == 5

\* Series.corr of the paired values: NaN when a series is constant,
\* otherwise the sign of the Pearson coefficient (-1, 0, 1)
CorrSign(xs, ys) ==
    LET n == Len(xs)
        Sx == SumSeq(xs)
        Sy == SumSeq(ys)
        cov == n * SumSeq([i \in 1..n |-> xs[i] * ys[i]]) - Sx * Sy
        vx == n * SumSeq([i \in 1..n |-> xs[i] * xs[i]]) - Sx * Sx
        vy == n * SumSeq([i \in 1..n |-> ys[i] * ys[i]]) - Sy * Sy
    IN  IF vx = 0 \/ vy = 0 THEN NaN
        ELSE Some(IF cov < 0 THEN -1 ELSE IF cov > 0 THEN 1 ELSE 0)

\* the row threshold off by one
DirectionResolver_SevenRows(pk, st, length) ==
    LET n == Len(pk)
        both == [i \in 1..n |-> IF IsNaN(pk[i]) \/ IsNaN(st[i]) THEN NaN ELSE Some(i)]
        idx == Present(both)
        xs == [j \in 1..Len(idx) |-> Val(pk[idx[j]])]
        ys == [j \in 1..Len(idx) |-> Val(st[idx[j]])]
        corr == CorrSign(xs, ys)
    IN  IF Len(idx) > MinPairs + 1 /\ ~IsNaN(corr) /\ Val(corr) < 0
        THEN [i \in 1..n |-> IF IsNaN(st[i]) THEN NaN ELSE Some(length - Val(st[i]))]
        ELSE st

\* corr <= 0 in place of corr < 0
DirectionResolver_FlipOnZero(pk, st, length) ==
    LET n == Len(pk)
        both == [i \in 1..n |-> IF IsNaN(pk[i]) \/ IsNaN(st[i]) THEN NaN ELSE Some(i)]
        idx == Present(both)
        xs == [j \in 1..Len(idx) |-> Val(pk[idx[j]])]
        ys == [j \in 1..Len(idx) |-> Val(st[idx[j]])]
        corr == CorrSign(xs, ys)
    IN  IF Len(idx) > MinPairs /\ ~IsNaN(corr) /\ Val(corr) <= 0
        THEN [i \in 1..n |-> IF IsNaN(st[i]) THEN NaN ELSE Some(length - Val(st[i]))]
        ELSE st

\* lines 171-175: pk, st are sequences of cells of equal length, length the
\* length of the reference line; the result is the new PK_geom_m
DirectionResolver(pk, st, length) ==
    LET n == Len(pk)
        both == [i \in 1..n |-> IF IsNaN(pk[i]) \/ IsNaN(st[i]) THEN NaN ELSE Some(i)]
        idx == Present(both)
        xs == [j \in 1..Len(idx) |-> Val(pk[idx[j]])]
        ys == [j \in 1..Len(idx) |-> Val(st[idx[j]])]
        corr == CorrSign(xs, ys)
    IN  IF Len(idx) > MinPairs /\ ~IsNaN(corr) /\ Val(corr) < 0
        THEN [i \in 1..n |-> IF IsNaN(st[i]) THEN NaN ELSE Some(length - Val(st[i]))]
        ELSE st

\* Series.round(2) of a station in millimetres
RoundStation(c) == IF IsNaN(c) THEN NaN ELSE Some(10 * RoundHalfEven(Val(c), 10))

\* back-projected coordinate of the snap point at raw arc length s
SnapCoord(c) == IF IsNaN(c) THEN NaN
                ELSE Some([num |-> Val(c), den |-> 1, jit |-> 0, snap |-> TRUE])

ColsDrop == {"X", "Y", "geometry", "geom_snap", "PK_equipo", "Lat", "Long"}

\* df["Lat"].isna().all() read from the wrong column
SinGPS_Long(df) == \A i \in 1..NRows(df) : IsNaN(df.rows[i]["Long"])

\* line 128: df["Lat"].isna().all()
SinGPS(df) == \A i \in 1..NRows(df) : IsNaN(df.rows[i]["Lat"])

\* procesar_geometria_lrs(df, ruta_activo): [df, error].  geo is what the
\* reference file and the geometry library answer: readable (gpd.read_file
\* succeeds), lineas (a LineString is found), length (linea.length),
\* project[i] (linea.project of row i with both coordinates present) and
\* snap_raises (the library raises on a point with a missing coordinate
\* instead of answering NaN).
procesar_geometria_lrs(df0, geo) ==
    LET df1 == Rename(df0, RenameMap)
        n == NRows(df1)
    IN
    IF ~({"PK_equipo", "Lat", "Long"} \subseteq df1.cols)
    THEN [df |-> df1, error |-> ErrInterno]
    ELSE
    LET iLat == ImputeCoord(df1, "Lat") IN
    IF iLat.raised THEN [df |-> iLat.df, error |-> ErrInterno]
    ELSE
    LET iLong == ImputeCoord(iLat.df, "Long") IN
    IF iLong.raised THEN [df |-> iLong.df, error |-> ErrInterno]
    ELSE
    LET df2 == iLong.df IN
    IF SinGPS(df2)
    THEN [df |-> df2, error |-> ErrNoGPS]
    ELSE
    LET df3 == SetColumn(SetColumn(df2, "X",
                   [i \in 1..n |-> Mercator(df2.rows[i]["Long"])]), "Y",
                   [i \in 1..n |-> Mercator(df2.rows[i]["Lat"])])
        located == {i \in 1..n : ~IsNaN(df2.rows[i]["Lat"]) /\ ~IsNaN(df2.rows[i]["Long"])}
    IN
    IF ~geo.readable THEN [df |-> df3, error |-> ErrCarga]
    ELSE IF ~geo.lineas THEN [df |-> df3, error |-> ErrLineas]
    ELSE IF located # 1..n /\ geo.snap_raises THEN [df |-> df3, error |-> ErrInterno]
    ELSE
    LET raw == [i \in 1..n |-> IF i \in located THEN Some(geo.project[i]) ELSE NaN]
        pkgeom == DirectionResolver(Column(df3, "PK_equipo"), raw, geo.length)
        g1 == SetColumn(df3, "PK_geom_m", pkgeom)
        g2 == SetColumn(g1, "Longitude", [i \in 1..n |-> SnapCoord(raw[i])])
        g3 == SetColumn(g2, "Latitude", [i \in 1..n |-> SnapCoord(raw[i])])
        g4 == SetColumn(g3, "Station No", [i \in 1..n |-> RoundStation(pkgeom[i])])
    IN  [df |-> DropColumns(g4, ColsDrop), error |-> None]
\* ---------------------------------------- procesar_archivo_completo: B, C
Channels == <<"On Voltage", "Off Voltage">>

\* voltage units per millivolt: half a hundredth, so that the median of two
\* two-decimal readings is a whole number of units
UnitsPerMilli == 2 * 100
MilliFactor == 1000
MeanThreshold == 100

\* (x * 1000).round(2) of a voltage cell
ScaleMilli(c) ==
    IF IsNaN(c) THEN NaN ELSE Some(2 * RoundHalfEven(MilliFactor * Val(c), 2))

ScaleColumn(df, c) ==
    SetColumn(df, c, [i \in 1..NRows(df) |-> ScaleMilli(df.rows[i][c])])

\* df[col].abs().mean() < 100 (the mean skips NaN; of nothing it is NaN)
MeanBelowThreshold(df, c) ==
    LET vs == Present(Column(df, c))
    IN  Len(vs) > 0 /\
        SumSeq([i \in 1..Len(vs) |-> Abs(vs[i])]) < MeanThreshold * UnitsPerMilli * Len(vs)

\* np.linspace(a, b, n, endpoint = False)
Linspace_NoEndpoint(a, b, n) ==
    [i \in 1..n |-> Some(RoundHalfEven(a * n + (i - 1) * (b - a), n))]

\* np.round(np.linspace(a, b, n), 3), a and b in millimetres
Linspace(a, b, n) ==
    [i \in 1..n |-> IF n = 1 THEN Some(a)
                    ELSE Some(RoundHalfEven(a * (n - 1) + (i - 1) * (b - a), n - 1))]

\* (x + aleatorio[i] / 1000000).round(8) of a coordinate cell of row i
Jitter(c, i) == IF IsNaN(c) THEN NaN ELSE Some([Val(c) EXCEPT !.jit = i])

RECURSIVE ScaleAll(_, _, _)
\* lines 315-317 (always = TRUE) and lines 332-336 (always = FALSE)
ScaleAll(df, k, always) ==
    IF k > Len(Channels) THEN df
    ELSE LET c == Channels[k]
         IN  IF c \in df.cols /\ (always \/ MeanBelowThreshold(df, c))
             THEN ScaleAll(ScaleColumn(df, c), k + 1, always)
             ELSE ScaleAll(df, k + 1, always)

\* lines 313-329
ManualStage(df, pk_inicial, pk_final) ==
    LET n == NRows(df)
        d1 == ScaleAll(df, 1, TRUE)
        d2 == IF n > 0 THEN SetColumn(d1, "Station No", Linspace(pk_inicial, pk_final, n))
              ELSE d1
    IN  IF {"Latitude", "Longitude"} \subseteq d2.cols
        THEN SetColumn(
                 SetColumn(d2, "Latitude",
                     [i \in 1..n |-> Jitter(d2.rows[i]["Latitude"], i)]),
                 "Longitude", [i \in 1..n |-> Jitter(d2.rows[i]["Longitude"], i)])
        ELSE d2

\* lines 330-336
GeoScaleStage(df) == ScaleAll(df, 1, FALSE)

\* ------------------------------------- procesar_archivo_completo: D and E
col_llave == "Data No"
col_destino == "Comment"
ComCol == 6

\* the merge without the deduplication
DropDuplicates_None(rows, seen) == rows

\* df_dcp.drop_duplicates(subset = [col_llave], keep = 'first')
RECURSIVE DropDuplicates(_, _)
DropDuplicates(rows, seen) ==
    IF rows = <<>> THEN <<>>
    ELSE IF Head(rows)[col_llave] \in seen THEN DropDuplicates(Tail(rows), seen)
         ELSE <<Head(rows)>> \o DropDuplicates(Tail(rows), seen \cup {Head(rows)[col_llave]})

\* the rows of right whose key equals k, in order
RECURSIVE Matches(_, _)
Matches(right, k) ==
    IF right = <<>> THEN <<>>
    ELSE IF Head(right)[col_llave] = k THEN <<Head(right)>> \o Matches(Tail(right), k)
         ELSE Matches(Tail(right), k)

\* pd.merge(df, right[[col_llave, com]], on = col_llave, how = 'left'):
\* every left row once per matching right row, or once with NaN; a column
\* of the left table named com too takes the suffix _x, the right one _y
RECURSIVE MergeRows(_, _, _, _, _)
MergeRows(lrows, right, cols, com, clash) ==
    IF lrows = <<>> THEN <<>>
    ELSE LET l == Head(lrows)
             ms == Matches(right, l[col_llave])
             vals == IF ms = <<>> THEN <<NaN>> ELSE [j \in 1..Len(ms) |-> ms[j][com]]
             out(v) == [k \in cols |->
                          IF clash /\ k = com \o "_x" THEN l[com]
                          ELSE IF clash /\ k = com \o "_y" THEN v
                          ELSE IF ~clash /\ k = com THEN v
                          ELSE l[k]]
         IN  [j \in 1..Len(vals) |-> out(vals[j])] \o
             MergeRows(Tail(lrows), right, cols, com, clash)

MergeLeft(df, right, com) ==
    LET clash == com \in df.cols
        cols == IF clash THEN (df.cols \ {com}) \cup {com \o "_x", com \o "_y"}
                ELSE df.cols \cup {com}
    IN  [cols |-> cols, rows |-> MergeRows(df.rows, right, cols, com, clash)]

\* the label overwriting the comment wherever there is a label
FillNa_Overwrite(a, b) == [i \in 1..Len(a) |-> IF IsNaN(b[i]) THEN a[i] ELSE b[i]]

\* Series.fillna(other), row by row
FillNa(a, b) == [i \in 1..Len(a) |-> IF IsNaN(a[i]) THEN b[i] ELSE a[i]]

DcpEmpty(dcp) == Len(dcp.columns) = 0 \/ Len(dcp.rows) = 0
DcpHas(dcp, c) == \E j \in 1..Len(dcp.columns) : dcp.columns[j] = c

\* lines 338-359.  A raised exception is swallowed (except: pass) and
\* leaves df_survey as it was last assigned.
MergeStage(df, dcp) ==
    IF DcpEmpty(dcp) \/ col_llave \notin df.cols THEN df
    ELSE IF ~(Len(dcp.columns) > ComCol) THEN df
    ELSE
    LET col_com == dcp.columns[ComCol + 1] IN
    IF ~DcpHas(dcp, col_llave) \/ col_com = col_llave THEN df
    ELSE
    LET unica == DropDuplicates(dcp.rows, {})
        merged == MergeLeft(df, unica, col_com)
        n == NRows(merged)
    IN
    IF col_com \notin merged.cols THEN merged
    ELSE
    LET filled ==
            IF col_destino \in merged.cols
            THEN SetColumn(merged, col_destino,
                     FillNa(Column(merged, col_destino), Column(merged, col_com)))
            ELSE SetColumn(merged, col_destino,
                     FillNa(Column(merged, col_com), [i \in 1..n |-> Some(<<>>)]))
    IN  IF col_com # col_destino THEN DropColumns(filled, {col_com}) ELSE filled

\* Series.astype(str) of a text cell
AsStr(c) == IF IsNaN(c) THEN <<"nan">> ELSE Val(c)

\* the corrected words carry an accent in the source (strings here are ASCII)
Correcciones == <<<<"valvula", "Valvula">>, <<"anodo", "Anodo">>,
                  <<"potencial", "Potencial">>, <<"estacion", "Estacion">>>>

\* str.replace(err, corr, regex = False) on a text, word by word
ReplaceWord(text, err, corr) ==
    [j \in 1..Len(text) |-> IF text[j] = err THEN corr ELSE text[j]]

RECURSIVE Corregir(_, _)
Corregir(text, k) ==
    IF k > Len(Correcciones) THEN text
    ELSE Corregir(ReplaceWord(text, Correcciones[k][1], Correcciones[k][2]), k + 1)

\* lines 361-365
SpellStage(df) ==
    IF col_destino \in df.cols
    THEN SetColumn(df, col_destino,
             [i \in 1..NRows(df) |-> Some(Corregir(AsStr(df.rows[i][col_destino]), 1))])
    ELSE df
\* ------------------------------------------ procesar_archivo_completo: F
\* the k-th smallest (k = 1, 2, ...) of a non-empty sequence of integers
KthSmallest(vs, k) ==
    LET R == {vs[i] : i \in 1..Len(vs)}
    IN  CHOOSE v \in R :
            /\ Cardinality({i \in 1..Len(vs) : vs[i] < v}) < k
            /\ Cardinality({i \in 1..Len(vs) : vs[i] <= v}) >= k

\* the median of a non-empty sequence of even integers
Median(vs) ==
    LET n == Len(vs)
    IN  (KthSmallest(vs, (n + 1) \div 2) + KthSmallest(vs, n \div 2 + 1)) \div 2

\* the cells of the window of width w that rolling(center = True) reads at i
Window(s, i, w) ==
    LET hi == i + (w - 1) \div 2
        lo == hi - w + 1
        a == IF lo < 1 THEN 1 ELSE lo
        b == IF hi > Len(s) THEN Len(s) ELSE hi
    IN  [j \in 1..(b - a + 1) |-> s[a + j - 1]]

\* rolling(window = w, center = True, min_periods = 1).median()
RollingMedian(s, w) ==
    [i \in 1..Len(s) |->
        LET vs == Present(Window(s, i, w))
        IN  IF Len(vs) = 0 THEN NaN ELSE Some(Median(vs))]

\* the threshold applied to half the difference
EsPico_Half(s, med, umbral) ==
    [i \in 1..Len(s) |->
        ~IsNaN(s[i]) /\ ~IsNaN(med[i]) /\
        Abs(Val(s[i]) - Val(med[i])) > 2 * umbral * UnitsPerMilli]

\* np.abs(s - mediana_local) > umbral ; NaN compares False
EsPico(s, med, umbral) ==
    [i \in 1..Len(s) |->
        ~IsNaN(s[i]) /\ ~IsNaN(med[i]) /\
        Abs(Val(s[i]) - Val(med[i])) > umbral * UnitsPerMilli]

\* df.loc[es_pico, col] = mediana_local[es_pico]
ReplacePicos(s, med, pico) == [i \in 1..Len(s) |-> IF pico[i] THEN med[i] ELSE s[i]]

\* rolling(window = w, center = True, min_periods = 1).mean().round(2)
RollingMean(s, w) ==
    [i \in 1..Len(s) |->
        LET vs == Present(Window(s, i, w))
        IN  IF Len(vs) = 0 THEN NaN
            ELSE Some(2 * RoundHalfEven(SumSeq(vs), 2 * Len(vs)))]

CountTrue(b) == Cardinality({i \in 1..Len(b) : b[i]})
\* ------------------------------------------------------------ the program
VARIABLES
    pc,                  \* position in procesar_archivo_completo
    uploaded_file,       \* the workbook: readable, first sheet, 'DCP Data'
    ruta_geo,            \* the reference file: exists, and what it answers
    cfg,                 \* sidebar values: umbral, ventana_det, aplicar_smooth,
                         \* ventana_smooth, pk_inicial, pk_final
    df_survey, df_dcp,
    usar_metodo_manual,
    error,               \* the error procesar_geometria_lrs returned
    avisos,              \* st.warning / st.error messages, in order
    col,                 \* index in Channels of the loop of step F
    mediana_local, es_pico,
    original,            \* history: channel name -> the column as it stood
                         \* when its detection began
    log_cambios,
    result               \* the returned table: <<>> before the return and for
                         \* (None, None, None), else <<df_survey>>

vars == <<pc, uploaded_file, ruta_geo, cfg, df_survey, df_dcp, usar_metodo_manual,
          error, avisos, col, mediana_local, es_pico, original, log_cambios, result>>

inputs == <<uploaded_file, ruta_geo, cfg>>
limpieza == <<col, mediana_local, es_pico, original, log_cambios>>

EmptyDcp == [columns |-> <<>>, rows |-> <<>>]
NoFrame == [cols |-> {}, rows |-> <<>>]
AvisoExcel == "Error critico leyendo archivo Excel"
AvisoFallo == "Fallo Geoespacial"
AvisoSinRef == "No se encontro el archivo de referencia geografico. Usando modo manual."

\* the first channel at or after k that df has, or Len(Channels) + 1
RECURSIVE NextCol(_, _)
NextCol(df, k) ==
    IF k > Len(Channels) \/ Channels[k] \in df.cols THEN k ELSE NextCol(df, k + 1)

Start(files, rutas, cfgs) ==
    /\ pc = "A"
    /\ uploaded_file \in files
    /\ ruta_geo \in rutas
    /\ cfg \in cfgs
    /\ df_survey = NoFrame
    /\ df_dcp = EmptyDcp
    /\ usar_metodo_manual = FALSE
    /\ error = None
    /\ avisos = <<>>
    /\ col = 0
    /\ mediana_local = <<>>
    /\ es_pico = <<>>
    /\ original = <<>>
    /\ log_cambios = <<>>
    /\ result = <<>>

\* lines 274-290
ReadExcel ==
    /\ pc = "A"
    /\ IF uploaded_file.readable
       THEN /\ df_survey' = uploaded_file.survey
            /\ df_dcp' = uploaded_file.dcp
            /\ pc' = "B"
            /\ UNCHANGED avisos
       ELSE /\ avisos' = Append(avisos, AvisoExcel)
            /\ pc' = "done"
            /\ UNCHANGED <<df_survey, df_dcp>>
    /\ UNCHANGED <<inputs, usar_metodo_manual, error, limpieza, result>>

\* lines 295-307
GeoAlign ==
    /\ pc = "B"
    /\ ruta_geo.exists
    /\ LET r == procesar_geometria_lrs(df_survey, ruta_geo)
       IN  /\ df_survey' = r.df
           /\ error' = r.error
           /\ usar_metodo_manual' = (r.error # None)
           /\ avisos' = IF r.error # None
                        THEN avisos \o <<AvisoFallo, r.error>> ELSE avisos
    /\ pc' = "C"
    /\ UNCHANGED <<inputs, df_dcp, limpieza, result>>

\* lines 308-310
NoCenterline ==
    /\ pc = "B"
    /\ ~ruta_geo.exists
    /\ usar_metodo_manual' = TRUE
    /\ avisos' = Append(avisos, AvisoSinRef)
    /\ pc' = "C"
    /\ UNCHANGED <<inputs, df_survey, df_dcp, error, limpieza, result>>

\* lines 313-329
ManualMode ==
    /\ pc = "C"
    /\ usar_metodo_manual
    /\ df_survey' = ManualStage(df_survey, cfg.pk_inicial, cfg.pk_final)
    /\ pc' = "D"
    /\ UNCHANGED <<inputs, df_dcp, usar_metodo_manual, error, avisos, limpieza, result>>

\* lines 330-336
GeoScale ==
    /\ pc = "C"
    /\ ~usar_metodo_manual
    /\ df_survey' = GeoScaleStage(df_survey)
    /\ pc' = "D"
    /\ UNCHANGED <<inputs, df_dcp, usar_metodo_manual, error, avisos, limpieza, result>>

\* lines 338-359
MergeComments ==
    /\ pc = "D"
    /\ df_survey' = MergeStage(df_survey, df_dcp)
    /\ pc' = "E"
    /\ UNCHANGED <<inputs, df_dcp, usar_metodo_manual, error, avisos, limpieza, result>>

\* lines 361-369
CorrectSpelling ==
    /\ pc = "E"
    /\ df_survey' = SpellStage(df_survey)
    /\ col' = NextCol(df_survey', 1)
    /\ pc' = "F"
    /\ UNCHANGED <<inputs, df_dcp, usar_metodo_manual, error, avisos,
                   mediana_local, es_pico, original, log_cambios, result>>

\* the detection reading the channel through the smoothing window
SerieCanal_Suavizada(df, c) == RollingMean(Column(df, c), cfg.ventana_smooth)

\* df_survey[col] as lines 372-373 read it
SerieCanal(df, c) == Column(df, c)

\* lines 372-374
DetectarPicos ==
    /\ pc = "F"
    /\ col <= Len(Channels)
    /\ LET s == SerieCanal(df_survey, Channels[col])
           med == RollingMedian(s, cfg.ventana_det)
       IN  /\ original' = [k \in DOMAIN original \cup {Channels[col]} |->
                             IF k = Channels[col] THEN Column(df_survey, k)
                             ELSE original[k]]
           /\ mediana_local' = med
           /\ es_pico' = EsPico(s, med, cfg.umbral)
    /\ pc' = "F_replace"
    /\ UNCHANGED <<inputs, df_survey, df_dcp, usar_metodo_manual, error, avisos,
                   col, log_cambios, result>>

\* lines 377-378
ReemplazarPicos ==
    /\ pc = "F_replace"
    /\ df_survey' = SetColumn(df_survey, Channels[col],
                        ReplacePicos(Column(df_survey, Channels[col]), mediana_local, es_pico))
    /\ pc' = "F_smooth"
    /\ UNCHANGED <<inputs, df_dcp, usar_metodo_manual, error, avisos, limpieza, result>>

\* lines 381-384, and the step of the loop of line 369
Suavizar ==
    /\ pc = "F_smooth"
    /\ df_survey' = IF cfg.aplicar_smooth
                    THEN SetColumn(df_survey, Channels[col],
                             RollingMean(Column(df_survey, Channels[col]), cfg.ventana_smooth))
                    ELSE df_survey
    /\ log_cambios' = Append(log_cambios, <<Channels[col], CountTrue(es_pico)>>)
    /\ col' = NextCol(df_survey', col + 1)
    /\ pc' = "F"
    /\ UNCHANGED <<inputs, df_dcp, usar_metodo_manual, error, avisos,
                   mediana_local, es_pico, original, result>>

\* line 386
Return ==
    /\ pc = "F"
    /\ col > Len(Channels)
    /\ result' = <<df_survey>>
    /\ pc' = "done"
    /\ UNCHANGED <<inputs, df_survey, df_dcp, usar_metodo_manual, error, avisos, limpieza>>

Next ==
    \/ ReadExcel
    \/ GeoAlign
    \/ NoCenterline
    \/ ManualMode
    \/ GeoScale
    \/ MergeComments
    \/ CorrectSpelling
    \/ DetectarPicos
    \/ ReemplazarPicos
    \/ Suavizar
    \/ Return
\* ------------------------------------------------------------- the inputs
BaseCols == {"Dist From Start", "Latitude", "Longitude", "On Voltage", "Off Voltage",
             "Data No"}

\* a survey sheet of n rows from its columns (sequences of cells)
Survey(n, pk, lat, long, on, off, key, com, hasCom) ==
    LET cols == IF hasCom THEN BaseCols \cup {"Comment"} ELSE BaseCols
    IN  [cols |-> cols,
         rows |-> [i \in 1..n |->
            [k \in cols |->
                CASE k = "Dist From Start" -> pk[i]
                  [] k = "Latitude" -> lat[i]
                  [] k = "Longitude" -> long[i]
                  [] k = "On Voltage" -> on[i]
                  [] k = "Off Voltage" -> off[i]
                  [] k = "Data No" -> key[i]
                  [] OTHER -> com[i]]]]

DefPk(n) == [i \in 1..n |-> Some(100 * (i - 1))]
DefLat(n) == [i \in 1..n |-> Some(Coord(i * i))]
DefLong(n) == [i \in 1..n |-> Some(Coord(7 - i))]
DefOn(n) == [i \in 1..n |-> Some(-150 - 2 * i)]
DefOff(n) == [i \in 1..n |-> Some(-24000 - 200 * i)]
DefKey(n) == [i \in 1..n |-> Some(i)]
DefCom(n) == [i \in 1..n |-> IF i = 1 THEN NaN ELSE Some(<<"ok">>)]

DefSurvey(n) ==
    Survey(n, DefPk(n), DefLat(n), DefLong(n), DefOn(n), DefOff(n), DefKey(n),
           DefCom(n), TRUE)

\* a 'DCP Data' sheet of seven columns, the seventh named com
DcpColumns(com) == <<"Data No", "c2", "c3", "c4", "c5", "c6", com>>
Dcp(com, keys, labels) ==
    [columns |-> DcpColumns(com),
     rows |-> [j \in 1..Len(keys) |->
                 [k \in {"Data No", com} |-> IF k = "Data No" THEN keys[j] ELSE labels[j]]]]
DefDcp == Dcp("Remarks", <<Some(1)>>, <<Some(<<"anodo">>)>>)

File(survey, dcp) == [readable |-> TRUE, survey |-> survey, dcp |-> dcp]
BadFile == [readable |-> FALSE, survey |-> NoFrame, dcp |-> EmptyDcp]

LineLength == 5005
ProjLen == 16
DefProject == [i \in 1..ProjLen |-> (1234 * i) % (LineLength + 1)]
Ruta(readable, lineas, raises, project) ==
    [exists |-> TRUE, readable |-> readable, lineas |-> lineas, snap_raises |-> raises,
     length |-> LineLength, project |-> project]
NoRuta == [Ruta(FALSE, FALSE, FALSE, DefProject) EXCEPT !.exists = FALSE]
GoodRuta == Ruta(TRUE, TRUE, FALSE, DefProject)
Rutas == {NoRuta, GoodRuta, Ruta(FALSE, FALSE, FALSE, DefProject),
          Ruta(TRUE, FALSE, FALSE, DefProject), Ruta(TRUE, TRUE, TRUE, DefProject)}

Cfg(umbral, ventana_det, aplicar_smooth, ventana_smooth, pk_inicial, pk_final) ==
    [umbral |-> umbral, ventana_det |-> ventana_det, aplicar_smooth |-> aplicar_smooth,
     ventana_smooth |-> ventana_smooth, pk_inicial |-> pk_inicial, pk_final |-> pk_final]
DefCfg == Cfg(15, 9, TRUE, 12, 0, 1000000)

\* one survey in every mode, and an unreadable workbook
BaseRows == 3
BaseInit ==
    Start({File(DefSurvey(BaseRows), DefDcp), BadFile}, {NoRuta, GoodRuta}, {DefCfg})

\* -- alignment failures: missing coordinates, unusable reference file
MaxRows == 4
Missing(n, base) == {[i \in 1..n |-> IF i \in S THEN NaN ELSE base[i]] : S \in SUBSET (1..n)}
LongPatterns(n) ==
    {DefLong(n), [i \in 1..n |-> NaN], [i \in 1..n |-> IF i = 1 THEN NaN ELSE DefLong(n)[i]]}
PkPatterns(n) == {DefPk(n), [i \in 1..n |-> IF i = n THEN NaN ELSE DefPk(n)[i]]}
FallbackSurveys ==
    UNION {{Survey(n, pk, lat, long, DefOn(n), DefOff(n), DefKey(n), DefCom(n), TRUE) :
                pk \in PkPatterns(n), lat \in Missing(n, DefLat(n)), long \in LongPatterns(n)} :
           n \in 0..MaxRows}
FallbackCfgs == {DefCfg, Cfg(15, 9, TRUE, 12, 2500, 100)}
FallbackInit ==
    Start({File(sv, DefDcp) : sv \in FallbackSurveys}, Rutas, FallbackCfgs)

Init == BaseInit \/ FallbackInit
Spec == Init /\ [][Next]_vars

\* -- voltage channels: volts and millivolts, spikes, gaps, both modes
SigRows == 3
VoltValues == {NaN, Some(-150), Some(-152), Some(-300), Some(-24000), Some(-40000)}
SignalSurveys ==
    UNION {{Survey(n, DefPk(n), DefLat(n), DefLong(n), on, DefOff(n), DefKey(n),
                   DefCom(n), TRUE) : on \in [1..n -> VoltValues]} : n \in 1..SigRows}
SignalCfgs == {Cfg(5, 3, TRUE, 2, 0, 1000000), Cfg(15, 3, FALSE, 3, 0, 1000000),
               Cfg(15, 5, TRUE, 3, 0, 1000000)}
SignalInit ==
    Start({File(sv, DefDcp) : sv \in SignalSurveys}, {NoRuta, GoodRuta}, SignalCfgs)
InitSignal == BaseInit \/ SignalInit
SpecSignal == InitSignal /\ [][Next]_vars

\* -- traversal direction: sensor distances against projected stations
DirRows == 6
DirPks == {[i \in 1..DirRows |-> IF i = DirRows /\ gap THEN NaN
                                 ELSE IF i = 1 THEN Some(0) ELSE Some(f[i])] :
               f \in [2..DirRows -> {0, 100}], gap \in BOOLEAN}
DirProjects == {[i \in 1..ProjLen |-> IF i = 1 THEN 1005
                                      ELSE IF i <= DirRows THEN f[i] ELSE 0] :
                    f \in [2..DirRows -> {1005, 3000}]}
DirSurveys ==
    {Survey(DirRows, pk, DefLat(DirRows), DefLong(DirRows), DefOn(DirRows),
            DefOff(DirRows), DefKey(DirRows), DefCom(DirRows), TRUE) : pk \in DirPks}
DirectionInit ==
    Start({File(sv, DefDcp) : sv \in DirSurveys},
          {Ruta(TRUE, TRUE, FALSE, pr) : pr \in DirProjects}, {DefCfg})
InitDirection == BaseInit \/ DirectionInit
SpecDirection == InitDirection /\ [][Next]_vars

\* -- annotations: keys, comments, and the shapes of the 'DCP Data' sheet
MaxSurveyRows == 2
DcpRows == 2
ComValues == {NaN, Some(<<"ok">>), Some(<<"valvula">>)}
Labels == <<Some(<<"anodo">>), Some(<<"tag">>), NaN, Some(<<"estacion">>)>>
MergeSurveys ==
    UNION {{Survey(n, DefPk(n), DefLat(n), DefLong(n), DefOn(n), DefOff(n), key, com, TRUE) :
                key \in [1..n -> {Some(1), Some(2)}], com \in [1..n -> ComValues]}
           \cup
           {Survey(n, DefPk(n), DefLat(n), DefLong(n), DefOn(n), DefOff(n), key, DefCom(n),
                   FALSE) : key \in [1..n -> {Some(1), Some(2)}]} :
           n \in 0..MaxSurveyRows}
MergeDcps ==
    UNION {{Dcp("Remarks", keys, [j \in 1..m |-> Labels[j]]) :
                keys \in [1..m -> {Some(1), Some(2)}]} : m \in 1..DcpRows}
    \cup {EmptyDcp,
          Dcp("Comment", <<Some(1)>>, <<Some(<<"tag">>)>>),
          [Dcp("Remarks", <<Some(1)>>, <<Some(<<"tag">>)>>) EXCEPT
               !.columns = <<"Data No", "c2", "c3", "c4", "c5", "Remarks">>],
          [Dcp("Remarks", <<Some(1)>>, <<Some(<<"tag">>)>>) EXCEPT
               !.columns = <<"No", "c2", "c3", "c4", "c5", "c6", "Remarks">>]}
MergeInit ==
    Start({File(sv, d) : sv \in MergeSurveys, d \in MergeDcps}, {NoRuta, GoodRuta}, {DefCfg})
InitMerge == BaseInit \/ MergeInit
SpecMerge == InitMerge /\ [][Next]_vars
\* ----------------------------------------------------------------- claims
Input == uploaded_file.survey
Output == result[1]
Returned == pc = "done" /\ result # <<>>
InputAllMissing(c) ==
    NRows(Input) > 0 /\ \A i \in 1..NRows(Input) : IsNaN(Input.rows[i][c])
Reported(msg) == \E j \in 1..Len(avisos) : avisos[j] = msg
Cleaned(c) == \E j \in 1..Len(log_cambios) : log_cambios[j][1] = c

\* C2, as stated: a run with no centerline file, or whose alignment returned
\* an error, returns a table whose Station No goes linearly from the
\* configured start station on the first row to the configured end station
\* on the last row, with the annotation merge and the cleaning executed.
StationsInterpolated(t) ==
    LET n == NRows(t)
    IN  n > 0 =>
          /\ "Station No" \in t.cols
          /\ \A i \in 1..n :
                /\ ~IsNaN(t.rows[i]["Station No"])
                /\ 2 * Abs(Val(t.rows[i]["Station No"]) * (n - 1)
                           - (cfg.pk_inicial * (n - 1)
                              + (i - 1) * (cfg.pk_final - cfg.pk_inicial))) <= n - 1
MergedAndCleaned(t) ==
    /\ Cleaned("On Voltage") /\ Cleaned("Off Voltage")
    /\ NRows(t) > 0 => t.rows[1]["Comment"] = Some(<<"Anodo">>)
C2_FallbackEndsAtEndStation ==
    (pc = "done" /\ uploaded_file.readable /\ (~ruta_geo.exists \/ error # None)) =>
        /\ usar_metodo_manual
        /\ result # <<>>
        /\ StationsInterpolated(Output)
        /\ MergedAndCleaned(Output)
        /\ NRows(Output) > 0 =>
              /\ Output.rows[1]["Station No"] = Some(cfg.pk_inicial)
              /\ Output.rows[NRows(Output)]["Station No"] = Some(cfg.pk_final)

\* C2, amended: the same, except that the last row carries the end station
\* only when the table has at least two rows; the only row of a one-row
\* table carries the start station.
C2_FallbackRunsManualMode ==
    (pc = "done" /\ uploaded_file.readable /\ (~ruta_geo.exists \/ error # None)) =>
        /\ usar_metodo_manual
        /\ result # <<>>
        /\ StationsInterpolated(Output)
        /\ MergedAndCleaned(Output)
        /\ NRows(Output) > 0 => Output.rows[1]["Station No"] = Some(cfg.pk_inicial)
        /\ NRows(Output) > 1 =>
              Output.rows[NRows(Output)]["Station No"] = Some(cfg.pk_final)
C2_Witness ==
    /\ Returned /\ error # None /\ usar_metodo_manual
    /\ NRows(Output) = 3 /\ cfg.pk_inicial # cfg.pk_final

\* C3, as stated: when every latitude or every longitude is missing the run
\* ends without an output table.
C3_AllMissingIsTerminal ==
    (pc = "done" /\ uploaded_file.readable
        /\ (InputAllMissing("Latitude") \/ InputAllMissing("Longitude")))
    => result = <<>>

\* C3, amended: when every latitude or every longitude is missing the run
\* still returns a table; when every latitude is missing and a reference
\* file exists, the alignment returns an error (the missing-GPS error unless
\* the longitude fit raised first), the error is reported as a warning and
\* the table is produced in Manual Mode.
C3_AllMissingFallsBack ==
    (pc = "done" /\ uploaded_file.readable
        /\ (InputAllMissing("Latitude") \/ InputAllMissing("Longitude")))
    => /\ result # <<>>
       /\ (InputAllMissing("Latitude") /\ ruta_geo.exists) =>
             /\ error \in {ErrNoGPS, ErrInterno}
             /\ (\A i \in 1..NRows(Input) : ~IsNaN(Input.rows[i]["Dist From Start"]))
                   => error = ErrNoGPS
             /\ Reported(error)
             /\ usar_metodo_manual
             /\ "Station No" \in Output.cols
C3_Witness ==
    /\ Returned /\ InputAllMissing("Latitude") /\ ruta_geo.exists
    /\ error = ErrNoGPS /\ NRows(Output) = 2

\* C10: when the alignment returns an error, the table it hands back for
\* the fallback is the input table, unmodified.
C10_ErrorHandsBackInput ==
    (pc = "C" /\ error # None) => df_survey = Input
\* C1: a run that returns a table returns as many rows as the survey sheet
\* has, in either mode, with or without a 'DCP Data' sheet, repeated keys
\* included.
C1_RowCountPreserved == Returned => NRows(Output) = NRows(Input)
RepeatedKey ==
    \E j, k \in 1..Len(df_dcp.rows) :
        j # k /\ df_dcp.rows[j]["Data No"] = df_dcp.rows[k]["Data No"]
        /\ \E i \in 1..NRows(Input) : Input.rows[i]["Data No"] = df_dcp.rows[j]["Data No"]
C1_Witness ==
    /\ Returned /\ NRows(Output) = 2 /\ RepeatedKey
    /\ Len(df_dcp.columns) > ComCol /\ ~usar_metodo_manual

\* C4: right after the spike replacement of a channel and before its
\* smoothing, every value present is within the threshold of the centered
\* rolling median of the channel as it was before the replacement, and
\* every flagged point equals that median.
WindowOf(s, i, w) ==
    {j \in 1..Len(s) : 2 * Abs(j - i) < w /\ ~IsNaN(s[j])}
IsMedianOf(m, s, W) ==
    /\ 2 * Cardinality({j \in W : 2 * Val(s[j]) < m}) <= Cardinality(W)
    /\ 2 * Cardinality({j \in W : 2 * Val(s[j]) > m}) <= Cardinality(W)
    /\ \/ \E j \in W : 2 * Val(s[j]) = m
       \/ \E j, k \in W : Val(s[j]) + Val(s[k]) = m
               /\ ~\E l \in W : Val(s[j]) < Val(s[l]) /\ Val(s[l]) < Val(s[k])
C4_WithinThresholdAfterReplacement ==
    pc = "F_smooth" =>
        LET c == Channels[col]
            before == original[c]
            after == Column(df_survey, c)
            t == cfg.umbral * UnitsPerMilli
        IN  \A i \in 1..Len(after) :
               LET W == WindowOf(before, i, cfg.ventana_det) IN
               /\ IsNaN(after[i]) <=> IsNaN(before[i])
               /\ ~IsNaN(after[i]) =>
                     /\ IsMedianOf(2 * Val(mediana_local[i]), before, W)
                     /\ Abs(Val(after[i]) - Val(mediana_local[i])) <= t
                     /\ Abs(Val(before[i]) - Val(mediana_local[i])) > t
                           => after[i] = mediana_local[i]
                     /\ Abs(Val(before[i]) - Val(mediana_local[i])) <= t
                           => after[i] = before[i]
C4_Witness ==
    /\ pc = "F_smooth" /\ col = 1
    /\ \E i, j \in 1..Len(es_pico) :
          /\ es_pico[i] /\ ~es_pico[j]
          /\ ~IsNaN(original[Channels[col]][j])
          /\ original[Channels[col]][j] # mediana_local[j]

\* C5: the direction is decided once for the whole table: with at least 6
\* rows having both sensor distance and station, and a negative Pearson
\* correlation between them, every station s becomes (path length - s);
\* otherwise every station stays as projected.
Located(i) == ~IsNaN(df_survey.rows[i]["Latitude"])
Paired ==
    {i \in 1..NRows(Input) : ~IsNaN(Input.rows[i]["Dist From Start"]) /\ Located(i)}
PairCov(st) ==
    SumSeq([i \in 1..Len(st) |->
        SumSeq([j \in 1..Len(st) |->
            IF i < j /\ i \in Paired /\ j \in Paired /\ ~IsNaN(st[i]) /\ ~IsNaN(st[j])
            THEN (Val(Input.rows[i]["Dist From Start"]) - Val(Input.rows[j]["Dist From Start"]))
                 * (Val(st[i]) - Val(st[j]))
            ELSE 0])])
Projected ==
    [i \in 1..NRows(Input) |-> IF Located(i) THEN Some(ruta_geo.project[i]) ELSE NaN]
Aligned == pc \notin {"A", "B"} /\ uploaded_file.readable /\ ruta_geo.exists /\ error = None
C5_DirectionDecidedOnce ==
    Aligned =>
        LET flip == Cardinality(Paired) >= 6 /\ PairCov(Projected) < 0
        IN  \A i \in 1..NRows(df_survey) :
               /\ df_survey.rows[i]["PK_geom_m"] =
                     IF flip /\ Located(i)
                     THEN Some(ruta_geo.length - ruta_geo.project[i])
                     ELSE Projected[i]
               /\ IsNaN(df_survey.rows[i]["Station No"]) <=> ~Located(i)
               /\ Located(i) =>
                     Abs(Val(df_survey.rows[i]["Station No"])
                         - Val(df_survey.rows[i]["PK_geom_m"])) <= 5
C5_Witness ==
    /\ Aligned /\ Cardinality(Paired) >= 6 /\ PairCov(Projected) < 0
    /\ \E i \in 1..NRows(df_survey) : df_survey.rows[i]["PK_geom_m"] # Projected[i]
C5_WitnessFewRows ==
    /\ Aligned /\ Cardinality(Paired) = 5 /\ PairCov(Projected) < 0
    /\ NRows(df_survey) = 6

\* C6, as stated: after one application of the resolver the correlation of
\* sensor distance and station is never negative, and a second application
\* changes no station.
Resolved == Column(df_survey, "PK_geom_m")
SecondPass ==
    DirectionResolver(Column(Input, "Dist From Start"), Resolved, ruta_geo.length)
C6_CorrelationNeverNegativeAfter ==
    Aligned => (PairCov(Resolved) >= 0 /\ SecondPass = Resolved)

\* C6, amended: a second application changes no station; the correlation
\* after the first application is non-negative (or undefined) when at least
\* 6 rows have both values, and with fewer rows the resolver never flips, so
\* a negative correlation stays negative.
C6_SecondPassChangesNothing ==
    Aligned =>
        /\ SecondPass = Resolved
        /\ Cardinality(Paired) >= 6 => PairCov(Resolved) >= 0
        /\ Cardinality(Paired) < 6 => Resolved = Projected
C6_Witness ==
    /\ Aligned /\ Cardinality(Paired) >= 6
    /\ PairCov(Projected) < 0 /\ PairCov(Resolved) > 0

\* C7: per channel, flags and replacement values come from the un-smoothed
\* series and the rolling mean runs on the spike-corrected series; with the
\* toggle off the spike-corrected values are the output.
SpikeCorrected(s) ==
    LET med == RollingMedian(s, cfg.ventana_det)
    IN  [i \in 1..Len(s) |->
           IF ~IsNaN(s[i]) /\ Abs(Val(s[i]) - Val(med[i])) > cfg.umbral * UnitsPerMilli
           THEN med[i] ELSE s[i]]
MeanOfWindow(s, i) ==
    LET hi == i + (cfg.ventana_smooth - 1) \div 2
        W == {j \in 1..Len(s) : hi - cfg.ventana_smooth < j /\ j <= hi /\ ~IsNaN(s[j])}
        sum == SumSeq([j \in 1..Len(s) |-> IF j \in W THEN Val(s[j]) ELSE 0])
    IN  IF W = {} THEN NaN ELSE Some(2 * RoundHalfEven(sum, 2 * Cardinality(W)))
C7_SmoothingAfterSpikeRemoval ==
    /\ pc = "F_smooth" =>
          Column(df_survey, Channels[col]) = SpikeCorrected(original[Channels[col]])
    /\ Returned =>
          \A k \in 1..Len(Channels) :
             LET c == Channels[k]
                 sc == SpikeCorrected(original[c])
             IN  Column(Output, c) =
                    IF cfg.aplicar_smooth THEN [i \in 1..Len(sc) |-> MeanOfWindow(sc, i)]
                    ELSE sc
C7_Witness ==
    /\ Returned /\ cfg.aplicar_smooth
    /\ \E i \in 1..NRows(Output) :
          /\ ~IsNaN(original["On Voltage"][i])
          /\ SpikeCorrected(original["On Voltage"])[i] # original["On Voltage"][i]
          /\ Output.rows[i]["On Voltage"] # SpikeCorrected(original["On Voltage"])[i]
C7_WitnessToggleOff ==
    /\ Returned /\ ~cfg.aplicar_smooth
    /\ SpikeCorrected(original["On Voltage"]) # original["On Voltage"]

\* C8: in either mode a channel is multiplied by 1000 only when the mean of
\* its absolute values is below 100; otherwise it is left unscaled.
InputMeanBelow(c) ==
    LET n == NRows(Input)
        P == {i \in 1..n : ~IsNaN(Input.rows[i][c])}
    IN  /\ P # {}
        /\ SumSeq([i \in 1..n |-> IF i \in P THEN Abs(Val(Input.rows[i][c])) ELSE 0])
              < 100 * UnitsPerMilli * Cardinality(P)
C8_ScaledOnlyBelowThreshold ==
    (pc = "D" /\ NRows(df_survey) = NRows(Input)) =>
        \A k \in 1..Len(Channels) : \A i \in 1..NRows(Input) :
            LET c == Channels[k]
                v == Input.rows[i][c]
            IN  df_survey.rows[i][c] =
                   IF IsNaN(v) THEN NaN
                   ELSE IF InputMeanBelow(c) THEN Some(1000 * Val(v)) ELSE v
\* C9, as stated: after the annotation merge a survey row that matches an
\* auxiliary record and has a non-empty comment holds its comment and the
\* matched label joined by a separator; a row with no matching record keeps
\* its comment.
MergeRan ==
    /\ ~DcpEmpty(df_dcp) /\ Len(df_dcp.columns) > ComCol
    /\ \E j \in 1..Len(df_dcp.columns) : df_dcp.columns[j] = "Data No"
    /\ df_dcp.columns[ComCol + 1] # "Data No"
Matched(i) ==
    \E j \in 1..Len(df_dcp.rows) : df_dcp.rows[j]["Data No"] = Input.rows[i]["Data No"]
FirstLabel(i) ==
    LET j == CHOOSE j \in 1..Len(df_dcp.rows) :
                 /\ df_dcp.rows[j]["Data No"] = Input.rows[i]["Data No"]
                 /\ \A k \in 1..(j - 1) :
                       df_dcp.rows[k]["Data No"] # Input.rows[i]["Data No"]
    IN  df_dcp.rows[j][df_dcp.columns[ComCol + 1]]
Contains(text, sub) ==
    \E k \in 0..(Len(text) - Len(sub)) : SubSeq(text, k + 1, k + Len(sub)) = sub
HasComment(i) == ~IsNaN(Input.rows[i]["Comment"]) /\ Input.rows[i]["Comment"] # Some(<<>>)
AfterMerge == pc = "E" /\ "Comment" \in Input.cols
C9_LabelJoinedToComment ==
    (AfterMerge /\ "Comment" \in df_survey.cols) =>
        \A i \in 1..NRows(Input) :
           LET old == Input.rows[i]["Comment"]
               new == df_survey.rows[i]["Comment"]
           IN  /\ (MergeRan /\ Matched(i) /\ HasComment(i) /\ ~IsNaN(FirstLabel(i))) =>
                     /\ ~IsNaN(new)
                     /\ Contains(Val(new), Val(old))
                     /\ Contains(Val(new), Val(FirstLabel(i)))
                     /\ Len(Val(new)) > Len(Val(old)) + Len(Val(FirstLabel(i)))
               /\ ~(MergeRan /\ Matched(i)) => new = old

\* C9, amended: after the annotation merge a survey row that has a comment
\* keeps exactly that comment whether or not it matches an auxiliary record
\* (the label is not joined to it; when the label column of the auxiliary
\* sheet is itself named 'Comment', the kept comment is in 'Comment_x'); the
\* label of the first matching record only fills a missing comment; a row
\* with no matching record keeps its comment.
C9_LabelOnlyFillsMissingComment ==
    AfterMerge =>
        LET kept == IF "Comment" \in df_survey.cols THEN "Comment" ELSE "Comment_x"
        IN  /\ kept \in df_survey.cols
            /\ kept = "Comment_x" => (MergeRan /\ df_dcp.columns[ComCol + 1] = "Comment")
            /\ NRows(df_survey) = NRows(Input)
            /\ \A i \in 1..NRows(Input) :
                  LET old == Input.rows[i]["Comment"]
                      new == df_survey.rows[i][kept]
                  IN  /\ ~IsNaN(old) => new = old
                      /\ ~(MergeRan /\ Matched(i)) => new = old
                      /\ (IsNaN(old) /\ MergeRan /\ Matched(i) /\ kept = "Comment")
                            => new = FirstLabel(i)
C9_Witness ==
    /\ AfterMerge /\ MergeRan /\ NRows(Input) = 2 /\ "Comment" \in df_survey.cols
    /\ Matched(1) /\ HasComment(1) /\ ~IsNaN(FirstLabel(1))
    /\ Matched(2) /\ IsNaN(Input.rows[2]["Comment"]) /\ ~IsNaN(FirstLabel(2))
    /\ df_survey.rows[2]["Comment"] = FirstLabel(2)
====
